---- MODULE Spec2Model ----
(***************************************************************************)
(* Vertex clique cover search of src/main.rs: the Clique and Graph data,   *)
(* the transfer routines, the greedy sweep, the iterated-greedy driver     *)
(* with its forced-split schedule, and the retry loop of main.             *)
(*                                                                         *)
(* Bit vectors (BitVec of length N) are sets of vertex ids in 0..N-1.      *)
(* SmallVec values are sequences; the source indexes them from 0, the      *)
(* sequences here from 1, so source index k is position k+1.  The clique   *)
(* arrays `vertices` and `cliques` are functions on 0..size-1.             *)
(***************************************************************************)
EXTENDS Integers, Sequences, FiniteSets, TLC

\* ---------------------------------------------------------------- bounds
\* Largest graph order explored (num_vertices ranges over 1..MaxN).
MaxN == 3
\* Largest iteration budget explored (num_iterations ranges over 1..MaxIterations).
MaxIterations == 4
\* Stand-in for the literal 1_000_000 of main.rs lines 345 and 381 (initial
\* iterations_per_annealing and the checkpoint period).  The two literals are
\* equal in the source and are scaled together here; any value >= 2 keeps the
\* source's order of events: at least one sweep precedes the first forced split.
ScaledMillion == 2
\* Largest threshold on which the growth of line 357 is computed.
MaxThreshold == 150

\* ------------------------------------------------------ program constants
\* main.rs line 346: annealings_per_slowdown.
AnnealingsPerSlowdown == 1
\* main.rs line 357: iterations_per_annealing += iterations_per_annealing / 50.
SlowdownDivisor == 50

VARIABLES
  size,                      \* Graph.size
  vertices,                  \* Graph.vertices
  cliques,                   \* Graph.cliques
  cliques_ct,                \* Graph.cliques_ct
  utility_bv,                \* Graph.utility_bv
  target,                    \* main: cliques_ct argument (planted count and target)
  num_iterations,            \* main: max_iterations
  reverse_fraction,          \* main: reverse_fraction, in halves (0, 1, 2 = 0.0, 0.5, 1.0)
  pc,                        \* position of the driver
  iter,                      \* vcc_run_iterations_to_target: loop variable i
  pri_cliques,               \* vcc_run_iterations_to_target locals ...
  iterations_per_annealing,
  cur_annealing_iterations,
  cur_annealing_annealings,
  ret,                       \* value returned by vcc_run_iterations_to_target
  fault,                     \* "none", or the panic that ended the process
  min_ct,                    \* history: least cliques_ct at the end of an iteration of this attempt
  op                         \* history: the last operation performed and its arguments

vars == <<size, vertices, cliques, cliques_ct, utility_bv, target, num_iterations,
          reverse_fraction, pc, iter, pri_cliques, iterations_per_annealing,
          cur_annealing_iterations, cur_annealing_annealings, ret, fault, min_ct, op>>

graph_vars == <<size, vertices, cliques, cliques_ct, utility_bv>>
driver_vars == <<target, num_iterations, reverse_fraction, pc, iter, pri_cliques,
                 iterations_per_annealing, cur_annealing_iterations,
                 cur_annealing_annealings, ret, fault, min_ct>>

\* ---------------------------------------------------------------- helpers
Ids(n) == 0..(n - 1)

\* BitVec::zeros(n), set_all_false / set_all_true on a vector of length n.
BvZeros == {}
BvAllTrue(n) == Ids(n)
\* Mutant of BvXor: or_inplace where the code has xor_inplace, so the vertices
\* that leave a clique keep their bits in its members_bv.
BvOrForXor(a, b) == a \cup b

\* xor_inplace
BvXor(a, b) == (a \ b) \cup (b \ a)

\* Mutant of SwapRemove: pop where the code has swap_remove(i), so the last
\* element is dropped whichever index is asked for.
PopForSwapRemove(s, k) == SubSeq(s, 1, Len(s) - 1)

\* SmallVec::swap_remove(k) for source index k (position k+1): the last element
\* takes the place of the removed one.
SwapRemove(s, k) ==
  LET last == Len(s)
  IN  [p \in 1..(last - 1) |-> IF p = k + 1 THEN s[last] ELSE s[p]]

\* slice.swap(a, b) on a clique array.
SwapSlots(cl, a, b) ==
  [k \in DOMAIN cl |-> IF k = a THEN cl[b] ELSE IF k = b THEN cl[a] ELSE cl[k]]

\* Permutations of 0..n-1 (the outcomes of fastrand::shuffle on n elements).
Perms(n) == {p \in [Ids(n) -> Ids(n)] : \A a, b \in Ids(n) : p[a] = p[b] => a = b}

\* ------------------------------------------------------------------ Clique
\* Mutant of Clique_new: neighbors_bv starts as BitVec::ones where line 52 has
\* BitVec::zeros, with has_neighbors still false.
Clique_new_with_ones(num_vertices, id) ==
  [ members_bv    |-> BvZeros,
    members_ct    |-> 1,
    members       |-> <<id>>,
    neighbors_bv  |-> BvAllTrue(num_vertices),
    length        |-> num_vertices,
    id            |-> id,
    is_active     |-> TRUE,
    has_neighbors |-> FALSE ]

\* Clique::new
Clique_new(num_vertices, id) ==
  [ members_bv    |-> BvZeros,
    members_ct    |-> 1,
    members       |-> <<id>>,
    neighbors_bv  |-> BvZeros,
    length        |-> num_vertices,
    id            |-> id,
    is_active     |-> TRUE,
    has_neighbors |-> FALSE ]

\* CliqueMaker::make_clique, for the maker's current id.
make_clique(num_vertices, id) ==
  [Clique_new(num_vertices, id) EXCEPT !.members_bv = @ \cup {id}]

\* Mutant of transcribe_clique_onto_clique: line 130, the copy of is_active, is
\* left out, so the target keeps its own flag.
transcribe_without_is_active(source_clique, target_clique) ==
  [ members_bv    |-> IF source_clique.members_ct = 1
                      THEN BvZeros \cup {source_clique.members[1]}
                      ELSE BvZeros \cup source_clique.members_bv,
    members       |-> IF source_clique.members_ct = 1
                      THEN <<source_clique.members[1]>>
                      ELSE source_clique.members,
    members_ct    |-> source_clique.members_ct,
    neighbors_bv  |-> BvZeros \cup source_clique.neighbors_bv,
    length        |-> source_clique.length,
    id            |-> source_clique.id,
    is_active     |-> target_clique.is_active,
    has_neighbors |-> source_clique.has_neighbors ]

\* transcribe_clique_onto_clique: the new value of target_clique.
transcribe_clique_onto_clique(source_clique, target_clique) ==
  [ members_bv    |-> IF source_clique.members_ct = 1
                      THEN BvZeros \cup {source_clique.members[1]}
                      ELSE BvZeros \cup source_clique.members_bv,
    members       |-> IF source_clique.members_ct = 1
                      THEN <<source_clique.members[1]>>
                      ELSE source_clique.members,
    members_ct    |-> source_clique.members_ct,
    neighbors_bv  |-> BvZeros \cup source_clique.neighbors_bv,
    length        |-> source_clique.length,
    id            |-> source_clique.id,
    is_active     |-> source_clique.is_active,
    has_neighbors |-> source_clique.has_neighbors ]

\* CliqueMaker::get_copy_of_clique
get_copy_of_clique(clique_to_copy) ==
  transcribe_clique_onto_clique(clique_to_copy,
                                Clique_new(clique_to_copy.length, clique_to_copy.id))

\* ------------------------------------------------------------------- Graph
\* A Graph value: the five fields of the struct.
\* Graph::new
Graph_new(num_vertices) ==
  [ size       |-> num_vertices,
    vertices   |-> [k \in Ids(num_vertices) |-> make_clique(num_vertices, k)],
    cliques    |-> [k \in Ids(num_vertices) |->
                      get_copy_of_clique(make_clique(num_vertices, k))],
    cliques_ct |-> num_vertices,
    utility_bv |-> BvZeros ]

\* Graph::conform_cliques_to_vertices
conform_cliques_to_vertices(g) ==
  [g EXCEPT !.cliques = [k \in Ids(g.size) |->
                           transcribe_clique_onto_clique(g.vertices[k], g.cliques[k])],
            !.cliques_ct = g.size]

\* Graph::activate_inactive_clique: the graph afterwards (the returned flag is
\* g.size # g.cliques_ct, evaluated before the call).
activate_inactive_clique(g) ==
  IF g.size = g.cliques_ct
  THEN g
  ELSE [g EXCEPT !.cliques[g.cliques_ct].is_active = TRUE,
                 !.cliques_ct = g.cliques_ct + 1]

\* --------------------------------------------------------------- transfers
\* A transfer works on two distinct cliques and the scratch vector; its result is
\* the three values afterwards.
Pair(clique_into, clique_from, utility) ==
  [into |-> clique_into, from |-> clique_from, utility |-> utility]

\* main.rs lines 251-264: the loop `for i in (0..clique_from.members_ct).rev()`.
\* k counts the source indexes still to visit; this call visits index k-1.
RECURSIVE transfer_members_loop(_, _, _, _, _)
transfer_members_loop(clique_into, clique_from, utility, vertices_vec, k) ==
  IF k = 0
  THEN Pair(clique_into, clique_from, utility)
  ELSE LET m == clique_from.members[k]
       IN  IF m \in utility
           THEN transfer_members_loop(
                  [clique_into EXCEPT
                     !.neighbors_bv = @ \cap vertices_vec[m].neighbors_bv,
                     !.members      = Append(@, m),
                     !.members_ct   = @ + 1],
                  [clique_from EXCEPT
                     !.members      = SwapRemove(@, k - 1),
                     !.members_ct   = @ - 1],
                  utility, vertices_vec, k - 1)
           ELSE transfer_members_loop(
                  clique_into,
                  [clique_from EXCEPT
                     !.neighbors_bv = @ \cap vertices_vec[m].neighbors_bv],
                  utility, vertices_vec, k - 1)

\* Mutant of transfer_vertices_in_utility_bv_between_cliques: line 250,
\* clique_from.neighbors_bv.set_all_true(), is left out, so the frontier of
\* clique_from is folded onto its old value.
transfer_without_frontier_reset(clique_into, clique_from, utility, vertices_vec) ==
  LET into1  == [clique_into EXCEPT !.members_bv = @ \cup utility]
      from1  == [clique_from EXCEPT !.members_bv = BvXor(@, utility)]
      After(looped) ==
        Pair(IF looped.into.neighbors_bv = {}
             THEN [looped.into EXCEPT !.has_neighbors = FALSE]
             ELSE looped.into,
             IF looped.from.members_ct = 0
             THEN [looped.from EXCEPT
                     !.neighbors_bv  = BvAllTrue(clique_from.length),
                     !.has_neighbors = TRUE,
                     !.is_active     = FALSE]
             ELSE [looped.from EXCEPT !.has_neighbors = TRUE],
             utility)
  IN  After(transfer_members_loop(into1, from1, utility, vertices_vec,
                                  clique_from.members_ct))

\* Mutant of transfer_vertices_in_utility_bv_between_cliques: line 272,
\* clique_from.is_active = false for a depleted clique, is left out.
transfer_without_deactivation(clique_into, clique_from, utility, vertices_vec) ==
  LET into1  == [clique_into EXCEPT !.members_bv = @ \cup utility]
      from1  == [clique_from EXCEPT !.members_bv   = BvXor(@, utility),
                                    !.neighbors_bv = BvAllTrue(clique_from.length)]
      After(looped) ==
        Pair(IF looped.into.neighbors_bv = {}
             THEN [looped.into EXCEPT !.has_neighbors = FALSE]
             ELSE looped.into,
             IF looped.from.members_ct = 0
             THEN [looped.from EXCEPT
                     !.neighbors_bv  = BvAllTrue(clique_from.length),
                     !.has_neighbors = TRUE]
             ELSE [looped.from EXCEPT !.has_neighbors = TRUE],
             utility)
  IN  After(transfer_members_loop(into1, from1, utility, vertices_vec,
                                  clique_from.members_ct))

\* Graph::transfer_vertices_in_utility_bv_between_cliques
\* (After(looped) is main.rs lines 266-277, applied to the cliques the loop leaves.)
transfer_vertices_in_utility_bv_between_cliques(clique_into, clique_from, utility, vertices_vec) ==
  LET into1  == [clique_into EXCEPT !.members_bv = @ \cup utility]
      from1  == [clique_from EXCEPT !.members_bv   = BvXor(@, utility),
                                    !.neighbors_bv = BvAllTrue(clique_from.length)]
      After(looped) ==
        Pair(IF looped.into.neighbors_bv = {}
             THEN [looped.into EXCEPT !.has_neighbors = FALSE]
             ELSE looped.into,
             IF looped.from.members_ct = 0
             THEN [looped.from EXCEPT
                     !.neighbors_bv  = BvAllTrue(clique_from.length),
                     !.has_neighbors = TRUE,
                     !.is_active     = FALSE]
             ELSE [looped.from EXCEPT !.has_neighbors = TRUE],
             utility)
  IN  After(transfer_members_loop(into1, from1, utility, vertices_vec,
                                  clique_from.members_ct))

\* Mutant of transfer_vertex_into_clique: the second guard, lines 185-187
\* (vertex_id is a member of clique_from), is left out.
transfer_vertex_without_member_guard(clique_into, clique_from, utility, vertices_vec, vertex_id) ==
  IF ~clique_into.has_neighbors THEN Pair(clique_into, clique_from, utility)
  ELSE IF vertex_id \notin clique_into.neighbors_bv
       THEN Pair(clique_into, clique_from, utility)
  ELSE IF ~clique_into.is_active THEN Pair(clique_into, clique_from, utility)
  ELSE transfer_vertices_in_utility_bv_between_cliques(
         clique_into, clique_from, BvZeros \cup {vertex_id}, vertices_vec)

\* Graph::transfer_vertex_into_clique
transfer_vertex_into_clique(clique_into, clique_from, utility, vertices_vec, vertex_id) ==
  IF ~clique_into.has_neighbors THEN Pair(clique_into, clique_from, utility)
  ELSE IF vertex_id \notin clique_from.members_bv
       THEN Pair(clique_into, clique_from, utility)
  ELSE IF vertex_id \notin clique_into.neighbors_bv
       THEN Pair(clique_into, clique_from, utility)
  ELSE IF ~clique_into.is_active THEN Pair(clique_into, clique_from, utility)
  ELSE transfer_vertices_in_utility_bv_between_cliques(
         clique_into, clique_from, BvZeros \cup {vertex_id}, vertices_vec)

\* Mutant of transfer_compatible_vertices: the return on utility_bv.none(),
\* lines 227-229, is left out, so an empty set of vertices is transferred.
transfer_compatible_without_none_guard(clique_into, clique_from, utility, vertices_vec) ==
  IF ~clique_into.has_neighbors THEN Pair(clique_into, clique_from, utility)
  ELSE transfer_vertices_in_utility_bv_between_cliques(
         clique_into, clique_from,
         (BvZeros \cup clique_into.neighbors_bv) \cap clique_from.members_bv,
         vertices_vec)

\* Mutant of transfer_compatible_vertices: the frontier is ignored, the guard of
\* lines 217-219 and the or_inplace of line 225 are replaced by taking every
\* member of clique_from.
transfer_compatible_ignoring_frontier(clique_into, clique_from, utility, vertices_vec) ==
  IF clique_from.members_bv = {}
  THEN Pair(clique_into, clique_from, BvZeros)
  ELSE transfer_vertices_in_utility_bv_between_cliques(
         clique_into, clique_from, clique_from.members_bv, vertices_vec)

\* Graph::transfer_compatible_vertices
transfer_compatible_vertices(clique_into, clique_from, utility, vertices_vec) ==
  IF ~clique_into.has_neighbors THEN Pair(clique_into, clique_from, utility)
  ELSE LET moving == (BvZeros \cup clique_into.neighbors_bv) \cap clique_from.members_bv
       IN  IF moving = {}
           THEN Pair(clique_into, clique_from, moving)
           ELSE transfer_vertices_in_utility_bv_between_cliques(
                  clique_into, clique_from, moving, vertices_vec)

\* The call sites borrow two distinct slots of g.cliques (split_at_mut) and the
\* scratch vector; StorePair writes the result of the call back into the graph.
StorePair(g, a, b, r) ==
  [g EXCEPT !.cliques    = [k \in DOMAIN g.cliques |->
                              IF k = a THEN r.into ELSE IF k = b THEN r.from
                              ELSE g.cliques[k]],
            !.utility_bv = r.utility]

\* main.rs lines 298-306: transfer_compatible_vertices on slots a (into), b (from).
compatible_transfer_at(g, a, b) ==
  StorePair(g, a, b,
            transfer_compatible_vertices(g.cliques[a], g.cliques[b],
                                         g.utility_bv, g.vertices))

\* main.rs lines 366-376, and any other call of transfer_vertex_into_clique on
\* slots a (into), b (from).
vertex_transfer_at(g, a, b, vertex_id) ==
  StorePair(g, a, b,
            transfer_vertex_into_clique(g.cliques[a], g.cliques[b],
                                        g.utility_bv, g.vertices, vertex_id))

\* ------------------------------------------------------------ perturbation
\* Graph::shuffle_active_cliques, with p the permutation fastrand::shuffle draws:
\* slot k of the active prefix receives the clique that was at p[k].
shuffle_active_cliques(g, p) ==
  [g EXCEPT !.cliques = [k \in DOMAIN g.cliques |->
                           IF k < g.cliques_ct THEN g.cliques[p[k]] ELSE g.cliques[k]]]

\* Graph::reverse_active_cliques
reverse_active_cliques(g) ==
  [g EXCEPT !.cliques = [k \in DOMAIN g.cliques |->
                           IF k < g.cliques_ct THEN g.cliques[g.cliques_ct - 1 - k]
                           ELSE g.cliques[k]]]

\* ------------------------------------------------------------------- sweep
\* Mutant of greedy_inner_loop: the inner loop stops one slot short,
\* `for j in (i + 1)..(cliques_ct - 1)`.
RECURSIVE greedy_inner_loop_one_short(_, _, _)
greedy_inner_loop_one_short(g, a, b) ==
  IF b >= g.cliques_ct - 1 THEN g
  ELSE greedy_inner_loop_one_short(IF ~g.cliques[b].is_active THEN g
                                   ELSE compatible_transfer_at(g, a, b),
                                   a, b + 1)

\* main.rs lines 294-307: the inner loop `for j in (i + 1)..cliques_ct`, from j = b.
RECURSIVE greedy_inner_loop(_, _, _)
greedy_inner_loop(g, a, b) ==
  IF b >= g.cliques_ct THEN g
  ELSE greedy_inner_loop(IF ~g.cliques[b].is_active THEN g
                         ELSE compatible_transfer_at(g, a, b),
                         a, b + 1)

\* main.rs lines 290-308: the outer loop `for i in 0..(cliques_ct - 1)`, from i = a.
RECURSIVE greedy_outer_loop(_, _)
greedy_outer_loop(g, a) ==
  IF a >= g.cliques_ct - 1 THEN g
  ELSE greedy_outer_loop(IF ~g.cliques[a].is_active THEN g
                         ELSE greedy_inner_loop(g, a, a + 1),
                         a + 1)

\* main.rs lines 310-324: the compaction loop, from index k.
RECURSIVE compact_loop(_, _)
compact_loop(g, k) ==
  IF k >= g.cliques_ct THEN g
  ELSE IF g.cliques[k].is_active THEN compact_loop(g, k + 1)
  ELSE IF g.cliques[g.cliques_ct - 1].is_active
       THEN compact_loop([g EXCEPT !.cliques    = SwapSlots(@, k, g.cliques_ct - 1),
                                   !.cliques_ct = @ - 1],
                         k + 1)
  ELSE compact_loop([g EXCEPT !.cliques_ct = @ - 1], k)

\* Mutant of vcc_greedy: the sweep begins by activating a reserve slot, as the
\* forced split does at line 361.
vcc_greedy_activating(g) ==
  compact_loop(greedy_outer_loop(activate_inactive_clique(g), 0), 1)

\* Mutant of vcc_greedy: the outer loop of line 290 begins at 1, as the compaction
\* loop of line 310 does, so cliques[0] never plays `into`.
vcc_greedy_skipping_first(g) == compact_loop(greedy_outer_loop(g, 1), 1)

\* Graph::vcc_greedy
vcc_greedy(g) == compact_loop(greedy_outer_loop(g, 0), 1)

\* Graph::vcc_iterated_greedy.  below is the outcome of the comparison
\* fastrand::f64() < reverse_fraction, p the permutation a shuffle draws.
vcc_iterated_greedy(g, below, p) ==
  vcc_greedy(IF below THEN reverse_active_cliques(g)
             ELSE shuffle_active_cliques(g, p))

\* -------------------------------------------------------------- generators
\* The candidate edges i < j visited by the generators' double loop.
AllPairs(n) == {e \in Ids(n) \X Ids(n) : e[1] < e[2]}

\* main.rs line 484: the pairs joined unconditionally, i % cliques_ct == j % cliques_ct.
PlantedPairs(n, k) == {e \in AllPairs(n) : e[1] % k = e[2] % k}

\* Mutant of with_edges: the loop of lines 449-453 (has_neighbors set where
\* neighbors_bv.any()) is left out.
with_edges_without_flag(g, E) ==
  [g EXCEPT !.vertices = [k \in Ids(g.size) |->
      [g.vertices[k] EXCEPT !.neighbors_bv =
          @ \cup {e[2] : e \in {x \in E : x[1] = k}}
            \cup {e[1] : e \in {x \in E : x[2] = k}}]]]

\* main.rs lines 439-453 and 482-502: the edges of E set in both directions in
\* vertices[..].neighbors_bv, then has_neighbors set where neighbors_bv.any().
with_edges(g, E) ==
  [g EXCEPT !.vertices = [k \in Ids(g.size) |->
      LET nb == g.vertices[k].neighbors_bv
                  \cup {e[2] : e \in {x \in E : x[1] = k}}
                  \cup {e[1] : e \in {x \in E : x[2] = k}}
      IN  [g.vertices[k] EXCEPT !.neighbors_bv  = nb,
                                !.has_neighbors = IF nb # {} THEN TRUE ELSE @]]]

\* get_random_graph: E the edges the random draws select, p the final shuffle.
get_random_graph(num_vertices, E, p) ==
  shuffle_active_cliques(
    conform_cliques_to_vertices(with_edges(Graph_new(num_vertices), E)), p)

\* get_random_graph_with_k_cliques: E the edges the random draws select among the
\* pairs that are not planted.
get_random_graph_with_k_cliques(num_vertices, k, E, p) ==
  IF k = 0
  THEN get_random_graph(num_vertices, E, p)
  ELSE conform_cliques_to_vertices(
         with_edges(Graph_new(num_vertices), PlantedPairs(num_vertices, k) \cup E))

\* The edge sets the random draws of the generators can select.
RandomEdgeSets(n, k) ==
  IF k = 0 THEN SUBSET AllPairs(n)
  ELSE SUBSET (AllPairs(n) \ PlantedPairs(n, k))

\* The permutations the generators' final shuffle can draw: get_random_graph
\* shuffles, get_random_graph_with_k_cliques with k > 0 does not (its p is unused).
Identity(n) == [a \in Ids(n) |-> a]
GeneratorShuffles(n, k) == IF k = 0 THEN Perms(n) ELSE {Identity(n)}

\* Mutant of BelowOutcomes: the comparison of line 328 is turned round,
\* fastrand::f64() > reverse_fraction.
AboveOutcomes(fraction) ==
  {below \in BOOLEAN : (below => fraction < 2) /\ (~below => fraction > 0)}

\* main.rs line 328: the outcomes of fastrand::f64() < reverse_fraction.  f64()
\* lies in [0, 1): it is below a fraction of 1.0 always, below 0.0 never, and
\* below a fraction in between for some draws and not for others.  fraction is
\* in halves (0, 1, 2 for 0.0, 0.5, 1.0).
BelowOutcomes(fraction) ==
  {below \in BOOLEAN : (below => fraction > 0) /\ (~below => fraction < 2)}

\* The permutations vcc_iterated_greedy can draw: shuffle is called only when the
\* draw is not below the fraction (p is unused otherwise).
SweepShuffles(below, n) == IF below THEN {Identity(n)} ELSE Perms(n)

\* ------------------------------------------------------------------ state
G == [ size |-> size, vertices |-> vertices, cliques |-> cliques,
       cliques_ct |-> cliques_ct, utility_bv |-> utility_bv ]

SetG(g) ==
  /\ size' = g.size
  /\ vertices' = g.vertices
  /\ cliques' = g.cliques
  /\ cliques_ct' = g.cliques_ct
  /\ utility_bv' = g.utility_bv

\* The record kept in op: the operation, the slots and vertex id it was called
\* with (-1 where it has none), what it did, whether a slot was activated, and
\* cliques_ct before it.
Op(name, a, b, v, outcome, activated, ct0) ==
  [ name |-> name, into |-> a, from |-> b, vertex |-> v, outcome |-> outcome,
    activated |-> activated, ct_before |-> ct0 ]

\* Which guard of transfer_vertex_into_clique (main.rs lines 181-195) ends the call.
vertex_transfer_outcome(clique_into, clique_from, vertex_id) ==
  IF ~clique_into.has_neighbors THEN "no_frontier"
  ELSE IF vertex_id \notin clique_from.members_bv THEN "not_member"
  ELSE IF vertex_id \notin clique_into.neighbors_bv THEN "not_neighbor"
  ELSE IF ~clique_into.is_active THEN "inactive"
  ELSE "moved"

\* Which guard of transfer_compatible_vertices (main.rs lines 217-229) ends the call.
compatible_transfer_outcome(clique_into, clique_from) ==
  IF ~clique_into.has_neighbors THEN "no_frontier"
  ELSE IF clique_into.neighbors_bv \cap clique_from.members_bv = {} THEN "empty"
  ELSE "moved"

Min(x, y) == IF x < y THEN x ELSE y

\* The halves a reverse_fraction argument is drawn from (0.0, 0.5, 1.0).
ReverseFractions == {0, 1, 2}

\* ------------------------------------------------------------------ driver
\* main.rs lines 342-348: the locals at the start of vcc_run_iterations_to_target.
StartAttempt(g) ==
  /\ SetG(g)
  /\ pc' = "loop"
  /\ iter' = 1
  /\ pri_cliques' = g.cliques_ct
  /\ iterations_per_annealing' = ScaledMillion
  /\ cur_annealing_iterations' = 0
  /\ cur_annealing_annealings' = 0
  /\ ret' = FALSE
  /\ min_ct' = g.size + 1

\* main.rs lines 512-527: the arguments, the first graph, the first attempt.
Init ==
  \E n \in 1..MaxN, num \in 1..MaxIterations, fraction \in ReverseFractions :
    \E k \in 0..n :
      \E E \in RandomEdgeSets(n, k), p \in GeneratorShuffles(n, k) :
        LET g == get_random_graph_with_k_cliques(n, k, E, p)
        IN  /\ size = g.size
            /\ vertices = g.vertices
            /\ cliques = g.cliques
            /\ cliques_ct = g.cliques_ct
            /\ utility_bv = g.utility_bv
            /\ target = k
            /\ num_iterations = num
            /\ reverse_fraction = fraction
            /\ pc = "loop"
            /\ iter = 1
            /\ pri_cliques = g.cliques_ct
            /\ iterations_per_annealing = ScaledMillion
            /\ cur_annealing_iterations = 0
            /\ cur_annealing_annealings = 0
            /\ ret = FALSE
            /\ fault = "none"
            /\ min_ct = g.size + 1
            /\ op = Op("init", -1, -1, -1, "none", FALSE, g.cliques_ct)

\* Mutant of escalated: the growth is the doubling left in the comment of line
\* 357 (`*= 2`).
escalated_by_doubling(t) == t * 2

\* main.rs line 357: iterations_per_annealing += iterations_per_annealing / 50.
escalated(t) == t + (t \div SlowdownDivisor)

\* main.rs lines 350-376: an iteration whose counter reaches the threshold: the
\* counters, activate_inactive_clique, the random index and the single-vertex
\* transfer from cliques[0] into cliques[cliques_ct - 1].
ForcedSplit ==
  /\ pc = "loop"
  /\ iter <= num_iterations
  /\ cur_annealing_iterations + 1 >= iterations_per_annealing
  /\ cur_annealing_iterations' = 0
  /\ IF cur_annealing_annealings + 1 >= AnnealingsPerSlowdown
     THEN /\ cur_annealing_annealings' = 0
          /\ iterations_per_annealing' = escalated(iterations_per_annealing)
     ELSE /\ cur_annealing_annealings' = cur_annealing_annealings + 1
          /\ iterations_per_annealing' = iterations_per_annealing
  /\ LET g1 == activate_inactive_clique(G)
         activated == (size # cliques_ct)
     IN  IF g1.cliques[0].members_ct = 0
         THEN \* fastrand::usize(..0) panics on the empty range
              /\ SetG(g1)
              /\ fault' = "empty_range"
              /\ pc' = "panicked"
              /\ op' = Op("forced_split", -1, -1, -1, "panic", activated, cliques_ct)
         ELSE \E vertex_id_to_transfer \in 0..(g1.cliques[0].members_ct - 1) :
                IF g1.cliques_ct - 1 = 0
                THEN \* cliques_before_new is empty: cliques_before_new[0] panics
                     /\ SetG(g1)
                     /\ fault' = "index_out_of_bounds"
                     /\ pc' = "panicked"
                     /\ op' = Op("forced_split", 0, 0, vertex_id_to_transfer,
                                 "panic", activated, cliques_ct)
                ELSE /\ SetG(vertex_transfer_at(g1, g1.cliques_ct - 1, 0,
                                                vertex_id_to_transfer))
                     /\ fault' = fault
                     /\ pc' = "reverse_sweep"
                     /\ op' = Op("forced_split", g1.cliques_ct - 1, 0,
                                 vertex_id_to_transfer,
                                 vertex_transfer_outcome(g1.cliques[g1.cliques_ct - 1],
                                                         g1.cliques[0],
                                                         vertex_id_to_transfer),
                                 activated, cliques_ct)
  /\ UNCHANGED <<target, num_iterations, reverse_fraction, iter, pri_cliques, ret, min_ct>>

\* main.rs line 378: vcc_iterated_greedy(1.0) after the forced split.
\* op keeps what the forced split did, and cliques_ct before this sweep.
ReverseSweep ==
  /\ pc = "reverse_sweep"
  /\ \E below \in BelowOutcomes(2) :
       \E p \in SweepShuffles(below, cliques_ct) :
         \E g1 \in {vcc_iterated_greedy(G, below, p)} : SetG(g1)
  /\ pc' = "sweep"
  /\ op' = Op("reverse_sweep", op.into, op.from, op.vertex, op.outcome, op.activated,
              cliques_ct)
  /\ UNCHANGED <<target, num_iterations, reverse_fraction, iter, pri_cliques,
                 iterations_per_annealing, cur_annealing_iterations,
                 cur_annealing_annealings, ret, fault, min_ct>>

\* main.rs lines 380-404: the sweep of the iteration and the progress check, with
\* cai the value of cur_annealing_iterations when line 380 is reached.
IterationBody(cai) ==
  \E below \in BelowOutcomes(reverse_fraction) :
   \E p \in SweepShuffles(below, cliques_ct) :
   \E g1 \in {vcc_iterated_greedy(G, below, p)} :
    LET checked == (iter % ScaledMillion = 0) \/ (g1.cliques_ct < pri_cliques)
    IN  /\ SetG(g1)
        /\ min_ct' = Min(min_ct, g1.cliques_ct)
        /\ cur_annealing_iterations' =
             IF checked /\ g1.cliques_ct < pri_cliques THEN 0 ELSE cai
        /\ pri_cliques' = IF checked THEN g1.cliques_ct ELSE pri_cliques
        /\ IF checked /\ g1.cliques_ct <= target
           THEN /\ ret' = TRUE
                /\ pc' = "returned"
                /\ iter' = iter
           ELSE /\ ret' = ret
                /\ pc' = "loop"
                /\ iter' = iter + 1
        /\ op' = Op("iteration", -1, -1, -1,
                    IF checked THEN "checked" ELSE "unchecked", FALSE, cliques_ct)

\* main.rs lines 350-352 and 380-404: an iteration without a forced split.
Iterate ==
  /\ pc = "loop"
  /\ iter <= num_iterations
  /\ cur_annealing_iterations + 1 < iterations_per_annealing
  /\ IterationBody(cur_annealing_iterations + 1)
  /\ UNCHANGED <<target, num_iterations, reverse_fraction, iterations_per_annealing,
                 cur_annealing_annealings, fault>>

\* main.rs lines 380-404: the rest of an iteration that began with a forced split.
IterateAfterSplit ==
  /\ pc = "sweep"
  /\ IterationBody(cur_annealing_iterations)
  /\ UNCHANGED <<target, num_iterations, reverse_fraction, iterations_per_annealing,
                 cur_annealing_annealings, fault>>

\* main.rs lines 405-406: the loop is exhausted.
ReturnFalse ==
  /\ pc = "loop"
  /\ iter > num_iterations
  /\ ret' = FALSE
  /\ pc' = "returned"
  /\ op' = Op("return_false", -1, -1, -1, "none", FALSE, cliques_ct)
  /\ UNCHANGED <<graph_vars, target, num_iterations, reverse_fraction, iter, pri_cliques,
                 iterations_per_annealing, cur_annealing_iterations,
                 cur_annealing_annealings, fault, min_ct>>

\* main.rs lines 527-529 with 468: on success the cover is printed and
\* get_random_graph_with_k_cliques begins a new graph with Graph::new.
MainSuccess ==
  /\ pc = "returned"
  /\ ret = TRUE
  /\ SetG(Graph_new(size))
  /\ pc' = "generate"
  /\ op' = Op("graph_new", -1, -1, -1, "none", FALSE, cliques_ct)
  /\ UNCHANGED <<target, num_iterations, reverse_fraction, iter, pri_cliques,
                 iterations_per_annealing, cur_annealing_iterations,
                 cur_annealing_annealings, ret, fault, min_ct>>

\* main.rs lines 529 and 527: the generator completes the new graph and the next
\* attempt starts on it.
MainGenerate ==
  /\ pc = "generate"
  /\ \E E \in RandomEdgeSets(size, target), p \in GeneratorShuffles(size, target) :
       \E g1 \in {get_random_graph_with_k_cliques(size, target, E, p)} :
         StartAttempt(g1)
  /\ op' = Op("new_graph", -1, -1, -1, "none", FALSE, cliques_ct)
  /\ UNCHANGED <<target, num_iterations, reverse_fraction, fault>>

\* main.rs lines 530-536: on failure the cover is reset (best_result is only
\* printed).
MainFailure ==
  /\ pc = "returned"
  /\ ret = FALSE
  /\ SetG(conform_cliques_to_vertices(G))
  /\ pc' = "retry"
  /\ op' = Op("conform", -1, -1, -1, "none", FALSE, cliques_ct)
  /\ UNCHANGED <<target, num_iterations, reverse_fraction, iter, pri_cliques,
                 iterations_per_annealing, cur_annealing_iterations,
                 cur_annealing_annealings, ret, fault, min_ct>>

\* main.rs lines 537 and 527: the reset cover is shuffled and the next attempt
\* starts on the same graph.
MainRetry ==
  /\ pc = "retry"
  /\ \E p \in Perms(size) :
       \E g1 \in {shuffle_active_cliques(G, p)} : StartAttempt(g1)
  /\ op' = Op("retry", -1, -1, -1, "none", FALSE, cliques_ct)
  /\ UNCHANGED <<target, num_iterations, reverse_fraction, fault>>

Next ==
  \/ ForcedSplit
  \/ ReverseSweep
  \/ Iterate
  \/ IterateAfterSplit
  \/ ReturnFalse
  \/ MainSuccess
  \/ MainGenerate
  \/ MainFailure
  \/ MainRetry

Spec == Init /\ [][Next]_vars

\* ------------------------------------------------- transfers, called freely
\* transfer_compatible_vertices and transfer_vertex_into_clique called in any
\* order on any two distinct slots and any vertex id, from the trivial cover (the
\* driver's variables stay as at the start of an attempt; op keeps the name of
\* the call and what it did).
\*
\* The two calls name vertices and slots only through their arguments, which
\* range over all slots and all ids, so a renaming of the vertices maps every run
\* onto a run of the renamed graph: one graph per isomorphism class is drawn.
RECURSIVE EdgeCode(_, _)
EdgeCode(E, n) ==
  IF E = {} THEN 0
  ELSE LET e == CHOOSE x \in E : TRUE
       IN  2 ^ (e[1] * n + e[2]) + EdgeCode(E \ {e}, n)

Renamed(E, p) ==
  {IF p[e[1]] < p[e[2]] THEN <<p[e[1]], p[e[2]]>> ELSE <<p[e[2]], p[e[1]]>> : e \in E}

IsRepresentative(n, E) ==
  \A p \in Perms(n) : EdgeCode(E, n) <= EdgeCode(Renamed(E, p), n)

InitOps ==
  \E n \in 1..MaxN :
    \E E \in {X \in RandomEdgeSets(n, n) : IsRepresentative(n, X)} :
      LET g == get_random_graph_with_k_cliques(n, n, E, Identity(n))
      IN  /\ size = g.size
          /\ vertices = g.vertices
          /\ cliques = g.cliques
          /\ cliques_ct = g.cliques_ct
          /\ utility_bv = g.utility_bv
          /\ target = n
          /\ num_iterations = 1
          /\ reverse_fraction = 0
          /\ pc = "ops"
          /\ iter = 1
          /\ pri_cliques = g.cliques_ct
          /\ iterations_per_annealing = ScaledMillion
          /\ cur_annealing_iterations = 0
          /\ cur_annealing_annealings = 0
          /\ ret = FALSE
          /\ fault = "none"
          /\ min_ct = g.size + 1
          /\ op = Op("init", -1, -1, -1, "none", FALSE, g.cliques_ct)

CallTransferCompatible ==
  /\ pc = "ops"
  /\ \E a, b \in Ids(size) :
       /\ a # b
       /\ \E g1 \in {compatible_transfer_at(G, a, b)} : SetG(g1)
       /\ op' = Op("transfer_compatible_vertices", -1, -1, -1,
                   compatible_transfer_outcome(cliques[a], cliques[b]),
                   FALSE, cliques_ct)
  /\ UNCHANGED driver_vars

CallTransferVertex ==
  /\ pc = "ops"
  /\ \E a, b \in Ids(size), vertex_id \in Ids(size) :
       /\ a # b
       /\ \E g1 \in {vertex_transfer_at(G, a, b, vertex_id)} : SetG(g1)
       /\ op' = Op("transfer_vertex_into_clique", -1, -1, -1,
                   vertex_transfer_outcome(cliques[a], cliques[b], vertex_id),
                   FALSE, cliques_ct)
  /\ UNCHANGED driver_vars

NextOps ==
  \/ CallTransferCompatible
  \/ CallTransferVertex

SpecOps == InitOps /\ [][NextOps]_vars

\* ================================================================= claims
\* The set of non-member vertices adjacent to every member of clique c, read from
\* the fixed adjacency of `vertices`.
BruteForceFrontier(c) ==
  {v \in Ids(size) \ c.members_bv :
     \A m \in c.members_bv : v \in vertices[m].neighbors_bv}

PairwiseAdjacent(S) ==
  \A u, v \in S : u # v => v \in vertices[u].neighbors_bv

\* The generated adjacency is symmetric and loop-free.
AdjacencyOk ==
  \A u, v \in Ids(size) :
    /\ u \notin vertices[u].neighbors_bv
    /\ (v \in vertices[u].neighbors_bv) = (u \in vertices[v].neighbors_bv)

\* C1: after any sequence of compatible-set and single-vertex transfers on
\* distinct slots from the trivial cover, every active clique has pairwise
\* adjacent members and its neighbors_bv equals the brute-force frontier.
C1_FrontierExact ==
  /\ AdjacencyOk
  /\ \A k \in Ids(size) :
       cliques[k].is_active =>
         /\ PairwiseAdjacent(cliques[k].members_bv)
         /\ cliques[k].neighbors_bv = BruteForceFrontier(cliques[k])

\* C1 witness: a transfer has moved vertices and left an active clique of two or
\* more members with a non-empty frontier beside another active clique.
C1_Witness ==
  /\ op.name \in {"transfer_compatible_vertices", "transfer_vertex_into_clique"}
  /\ op.outcome = "moved"
  /\ \E k \in Ids(size) :
       /\ cliques[k].is_active
       /\ cliques[k].members_ct >= 2
       /\ cliques[k].neighbors_bv # {}

\* The active slots whose members_bv holds v, and the occurrences of v in the
\* member lists of active slots.
ActiveHolders(v) ==
  {k \in Ids(size) : cliques[k].is_active /\ v \in cliques[k].members_bv}

ActiveListings(v) ==
  {kq \in Ids(size) \X (1..size) :
     /\ cliques[kq[1]].is_active
     /\ kq[2] <= Len(cliques[kq[1]].members)
     /\ cliques[kq[1]].members[kq[2]] = v}

\* C2: in every state the driver reaches, every vertex id is a member of exactly
\* one active clique, in the bit vectors and in the member lists alike.
C2_Conservation ==
  \A v \in Ids(size) :
    /\ Cardinality(ActiveHolders(v)) = 1
    /\ Cardinality(ActiveListings(v)) = 1

\* C2 witness: a forced split has activated a slot and moved a vertex into it.
C2_Witness ==
  /\ op.name = "forced_split"
  /\ op.activated
  /\ op.outcome = "moved"

\* C3: a forced split from a state where cliques[0] has two or more members and
\* an inactive slot remains raises cliques_ct by exactly one and moves exactly
\* one vertex of cliques[0] into the newly activated clique, conserving the cover.
C3_ForcedSplitSeeds ==
  [][ ( /\ pc = "loop"
        /\ op'.name = "forced_split"
        /\ cliques[0].members_ct >= 2
        /\ cliques_ct < size )
      => ( /\ cliques_ct' = cliques_ct + 1
           /\ \E v \in cliques[0].members_bv :
                /\ cliques'[0].members_bv = cliques[0].members_bv \ {v}
                /\ cliques'[cliques_ct].members_bv = {v}
                /\ \A k \in Ids(size) \ {0, cliques_ct} :
                     cliques'[k].members_bv = cliques[k].members_bv
           /\ C2_Conservation' ) ]_vars

\* C4: a sweep never increases cliques_ct (op keeps cliques_ct before the call).
C4_SweepMonotone ==
  op.name \in {"iteration", "reverse_sweep"} => cliques_ct <= op.ct_before

\* C4 witness: a sweep has merged cliques.
C4_Witness ==
  /\ op.name = "iteration"
  /\ cliques_ct < op.ct_before

\* C5: a call of transfer_compatible_vertices in which `into` has no frontier or
\* into.neighbors_bv and from.members_bv are disjoint changes no field of any
\* clique, whichever two distinct slots it is called on.
C5_CompatibleNoOp ==
  \A a, b \in Ids(size) :
    ( /\ a # b
      /\ \/ ~cliques[a].has_neighbors
         \/ cliques[a].neighbors_bv \cap cliques[b].members_bv = {} )
    => compatible_transfer_at(G, a, b).cliques = cliques

\* C5 witness: such a call has been made on a clique that has a frontier.
C5_Witness ==
  /\ op.name = "transfer_compatible_vertices"
  /\ op.outcome = "empty"

VertexPreconditions(a, b, vertex_id) ==
  /\ cliques[a].has_neighbors
  /\ vertex_id \in cliques[b].members_bv
  /\ vertex_id \in cliques[a].neighbors_bv
  /\ cliques[a].is_active

ListSet(q) == {q[x] : x \in DOMAIN q}

\* C6: a call of transfer_vertex_into_clique with a failing precondition changes
\* no clique; with all four holding, exactly vertex_id leaves `from` and enters
\* `into` (bit vectors, member lists and counts), the other slots unchanged.
C6_VertexTransfer ==
  \A a, b \in Ids(size), vertex_id \in Ids(size) :
    a # b =>
      LET after == vertex_transfer_at(G, a, b, vertex_id).cliques
      IN  IF VertexPreconditions(a, b, vertex_id)
          THEN /\ after[a].members_bv = cliques[a].members_bv \cup {vertex_id}
               /\ vertex_id \notin cliques[a].members_bv
               /\ after[b].members_bv = cliques[b].members_bv \ {vertex_id}
               /\ ListSet(after[a].members) = ListSet(cliques[a].members) \cup {vertex_id}
               /\ ListSet(after[b].members) = ListSet(cliques[b].members) \ {vertex_id}
               /\ after[a].members_ct = cliques[a].members_ct + 1
               /\ after[b].members_ct = cliques[b].members_ct - 1
               /\ \A k \in Ids(size) \ {a, b} : after[k] = cliques[k]
          ELSE after = cliques

\* C6 witnesses: a call has failed a precondition other than the first, and a
\* call has moved its vertex out of a clique that keeps other members.
C6_WitnessNoOp ==
  /\ op.name = "transfer_vertex_into_clique"
  /\ op.outcome = "not_neighbor"

C6_Witness ==
  /\ op.name = "transfer_vertex_into_clique"
  /\ op.outcome = "moved"
  /\ \E k \in Ids(size) : cliques[k].is_active /\ cliques[k].members_ct >= 2

\* The trivial cover: cliques_ct = size and slot k an active singleton with the
\* members, count, frontier and flag of vertices[k].
IsConformed(g) ==
  /\ g.cliques_ct = g.size
  /\ \A k \in Ids(g.size) :
       /\ g.cliques[k].is_active
       /\ g.cliques[k].members_bv = {k}
       /\ g.cliques[k].members = <<k>>
       /\ g.cliques[k].members_ct = 1
       /\ g.cliques[k].members_bv = g.vertices[k].members_bv
       /\ g.cliques[k].members = g.vertices[k].members
       /\ g.cliques[k].members_ct = g.vertices[k].members_ct
       /\ g.cliques[k].neighbors_bv = g.vertices[k].neighbors_bv
       /\ g.cliques[k].has_neighbors = g.vertices[k].has_neighbors

\* C7: from every state the driver reaches, conform_cliques_to_vertices yields the
\* trivial cover, and a second application changes nothing.
C7_ConformIdempotent ==
  LET once == conform_cliques_to_vertices(G)
  IN  /\ IsConformed(once)
      /\ conform_cliques_to_vertices(once) = once

\* C7 witness: main has reset a cover that had merged cliques and inactive slots.
C7_Witness ==
  /\ op.name = "conform"
  /\ op.ct_before < size
  /\ IsConformed(G)

\* C8: the attempt runs at most num_iterations iterations, returns true only with
\* cliques_ct <= target, and returns false only if cliques_ct was above target at
\* the end of every iteration.
C8_TerminationOutcome ==
  /\ iter <= num_iterations + 1
  /\ (pc = "returned" /\ ret) => cliques_ct <= target
  /\ (pc = "returned" /\ ~ret) => min_ct > target

\* C9: a forced split that finds all slots active ends without a panic, leaves
\* cliques_ct at size and relocates no vertex.
C9_ExhaustedReserveBenign ==
  (op.name = "forced_split" /\ ~op.activated) =>
    /\ fault = "none"
    /\ cliques_ct = size
    /\ op.outcome # "moved"

\* Every vertex adjacent to every other.
IsComplete ==
  \A u, v \in Ids(size) : u # v => v \in vertices[u].neighbors_bv

\* The sweep just made was the first of an attempt: it ran on the trivial cover
\* in the order the perturbation gave it.
FirstSweepDone ==
  /\ op.name = "iteration"
  /\ \/ pc = "loop" /\ iter = 2
     \/ pc = "returned" /\ iter = 1

\* C10: on a complete graph one sweep from the trivial cover, in any order of the
\* singletons, ends with cliques_ct = 1 and cliques[0] holding every vertex.
C10_CompleteGraphOneSweep ==
  (FirstSweepDone /\ IsComplete) =>
    /\ cliques_ct = 1
    /\ cliques[0].is_active
    /\ cliques[0].members_bv = Ids(size)
    /\ cliques[0].members_ct = size

\* C10 witness: such a sweep has run on the complete graph of MaxN vertices.
C10_Witness ==
  /\ FirstSweepDone
  /\ IsComplete
  /\ size = MaxN
  /\ cliques_ct = 1

\* No vertex has a neighbor.
IsEdgeless ==
  \A v \in Ids(size) : vertices[v].neighbors_bv = {}

\* C11: on a graph without edges no transfer between two slots is eligible (every
\* frontier is empty and flagged so), and through all perturbations and sweeps
\* cliques_ct stays at size with every clique an active singleton.
C11_EdgelessStaysTrivial ==
  IsEdgeless =>
    /\ cliques_ct = size
    /\ \A k \in Ids(size) :
         /\ cliques[k].is_active
         /\ cliques[k].members_ct = 1
         /\ Cardinality(cliques[k].members_bv) = 1
         /\ cliques[k].neighbors_bv = {}
    /\ \A a, b \in Ids(size) :
         a # b => compatible_transfer_outcome(cliques[a], cliques[b]) = "no_frontier"

\* C11 witness: several sweeps have run on the edgeless graph of MaxN vertices.
C11_Witness ==
  /\ IsEdgeless
  /\ size = MaxN
  /\ op.name = "iteration"
  /\ iter >= 3

\* --------------------------------------------- two disjoint triangles, swept
\* The graph of two disjoint triangles on the vertices 0..5, and the iterations
\* of perturbation and sweep run on it from the trivial cover.
Triangles == {{0, 1, 2}, {3, 4, 5}}

TriangleEdges ==
  {e \in AllPairs(Cardinality(UNION Triangles)) :
     \E T \in Triangles : e[1] \in T /\ e[2] \in T}

\* The graph as the generators build it (edges set, flags set, cover conformed),
\* with any reverse_fraction.
InitTriangles ==
  \E fraction \in ReverseFractions :
    LET g == conform_cliques_to_vertices(
               with_edges(Graph_new(Cardinality(UNION Triangles)), TriangleEdges))
    IN  /\ size = g.size
        /\ vertices = g.vertices
        /\ cliques = g.cliques
        /\ cliques_ct = g.cliques_ct
        /\ utility_bv = g.utility_bv
        /\ target = 0
        /\ num_iterations = 1
        /\ reverse_fraction = fraction
        /\ pc = "sweeps"
        /\ iter = 1
        /\ pri_cliques = g.cliques_ct
        /\ iterations_per_annealing = ScaledMillion
        /\ cur_annealing_iterations = 0
        /\ cur_annealing_annealings = 0
        /\ ret = FALSE
        /\ fault = "none"
        /\ min_ct = g.size + 1
        /\ op = Op("init", -1, -1, -1, "none", FALSE, g.cliques_ct)

\* vcc_iterated_greedy(reverse_fraction) in its two steps.  Lines 328-332: the
\* active prefix is reversed or shuffled.
TrianglePerturb ==
  /\ pc = "sweeps"
  /\ \E below \in BelowOutcomes(reverse_fraction) :
       \E p \in SweepShuffles(below, cliques_ct) :
         SetG(IF below THEN reverse_active_cliques(G) ELSE shuffle_active_cliques(G, p))
  /\ pc' = "perturbed"
  /\ op' = Op("perturb", -1, -1, -1, "none", FALSE, cliques_ct)
  /\ UNCHANGED <<target, num_iterations, reverse_fraction, iter, pri_cliques,
                 iterations_per_annealing, cur_annealing_iterations,
                 cur_annealing_annealings, ret, fault, min_ct>>

\* Line 333: vcc_greedy on the perturbed order.
TriangleSweep ==
  /\ pc = "perturbed"
  /\ SetG(vcc_greedy(G))
  /\ pc' = "sweeps"
  /\ op' = Op("vcc_greedy", -1, -1, -1, "none", FALSE, cliques_ct)
  /\ UNCHANGED <<target, num_iterations, reverse_fraction, iter, pri_cliques,
                 iterations_per_annealing, cur_annealing_iterations,
                 cur_annealing_annealings, ret, fault, min_ct>>

NextTriangles ==
  \/ TrianglePerturb
  \/ TriangleSweep

\* The iterations follow one another without end (the loop of line 349) and each
\* call runs to its end: control does not rest before a perturbation nor before
\* a sweep.  Both steps can be taken whenever control is at them, so fairness is
\* stated on the move of pc.
SpecTriangles ==
  InitTriangles /\ [][NextTriangles]_vars
    /\ WF_pc(pc = "sweeps" /\ pc' = "perturbed")
    /\ WF_pc(pc = "perturbed" /\ pc' = "sweeps")

\* The cover has exactly one clique per triangle.
OnePerTriangle ==
  /\ cliques_ct = 2
  /\ {cliques[k].members_bv : k \in Ids(cliques_ct)} = Triangles
  /\ \A k \in Ids(cliques_ct) : cliques[k].is_active

\* C12: on two disjoint triangles the iterations of perturbation and sweep reach
\* cliques_ct = 2 with one clique per triangle at the end of a sweep, and
\* cliques_ct is never below 2.
C12_TrianglesConverge ==
  /\ [](cliques_ct >= 2)
  /\ <>(pc = "sweeps" /\ OnePerTriangle)

\* C12 witness: a sweep has produced the cover of one clique per triangle.
C12_Witness ==
  /\ op.name = "vcc_greedy"
  /\ OnePerTriangle

\* ------------------------------------------------ the driver on a path graph
\* The driver started on graphs of MaxN + 1 vertices: the path 0 - 1 - ... - MaxN
\* from get_random_graph (target 0), and the planted graphs of
\* get_random_graph_with_k_cliques for a target of 2.
PathEdges(n) == {e \in AllPairs(n) : e[2] = e[1] + 1}

InitPath ==
  \E num \in 1..MaxIterations, fraction \in ReverseFractions, k \in {0, 2} :
    \E E \in (IF k = 0 THEN {PathEdges(MaxN + 1)} ELSE RandomEdgeSets(MaxN + 1, k)) :
      \E p \in GeneratorShuffles(MaxN + 1, k) :
        LET g == get_random_graph_with_k_cliques(MaxN + 1, k, E, p)
        IN  /\ size = g.size
            /\ vertices = g.vertices
            /\ cliques = g.cliques
            /\ cliques_ct = g.cliques_ct
            /\ utility_bv = g.utility_bv
            /\ target = k
            /\ num_iterations = num
            /\ reverse_fraction = fraction
            /\ pc = "loop"
            /\ iter = 1
            /\ pri_cliques = g.cliques_ct
            /\ iterations_per_annealing = ScaledMillion
            /\ cur_annealing_iterations = 0
            /\ cur_annealing_annealings = 0
            /\ ret = FALSE
            /\ fault = "none"
            /\ min_ct = g.size + 1
            /\ op = Op("init", -1, -1, -1, "none", FALSE, g.cliques_ct)

SpecPath == InitPath /\ [][Next]_vars

\* C13: when the attempt returns false, g.cliques_ct, which main reads at line 531,
\* is the smallest cliques_ct attained at the end of any iteration of the attempt.
C13_FailureReportsBest ==
  (pc = "returned" /\ ~ret) => cliques_ct = min_ct

\* The active cliques fill the prefix of the array, each with a member, and the
\* slots behind it are inactive and empty.
Partitioned ==
  \A k \in Ids(size) :
    IF k < cliques_ct
    THEN /\ cliques[k].is_active
         /\ cliques[k].members_ct >= 1
         /\ cliques[k].members_bv # {}
    ELSE /\ ~cliques[k].is_active
         /\ cliques[k].members_bv = {}
         /\ cliques[k].members = << >>
         /\ cliques[k].members_ct = 0

\* C14: after every sweep the driver makes, the reversed one after a forced split
\* included, the array is partitioned (active non-empty prefix, inactive empty
\* rest), and whenever an iteration is about to begin, so at every forced split,
\* cliques[0] is active and non-empty.
C14_CompactionPostcondition ==
  /\ op.name \in {"iteration", "reverse_sweep"} => Partitioned
  /\ pc = "loop" => (cliques[0].is_active /\ cliques[0].members_ct >= 1)

\* C14 witness: the reversed sweep after a forced split has depleted a clique and
\* the compaction has dropped it from the prefix.
C14_Witness ==
  /\ op.name = "reverse_sweep"
  /\ cliques_ct < op.ct_before
  /\ Partitioned

\* The three representations of the members of clique c agree: the count is the
\* number of set bits, the list has that length and holds exactly the set bits
\* (so it holds none twice).
InSync(c) ==
  /\ c.members_ct = Cardinality(c.members_bv)
  /\ Len(c.members) = c.members_ct
  /\ ListSet(c.members) = c.members_bv

\* C15: in every state of the driver (after every transfer, reset and copy) every
\* clique of the working array and of the vertex array has members_bv, members
\* and members_ct in agreement.
C15_RepresentationSync ==
  \A k \in Ids(size) : InSync(cliques[k]) /\ InSync(vertices[k])

\* C15 witness: transfers have left an active clique whose member list is out of
\* ascending order and a depleted slot behind the prefix.
C15_Witness ==
  /\ op.name = "iteration"
  /\ \E k \in Ids(size) :
       /\ cliques[k].is_active
       /\ cliques[k].members_ct >= 2
       /\ cliques[k].members[1] > cliques[k].members[2]
  /\ cliques_ct < size

\* C16: in every state of the driver, every active clique has has_neighbors true
\* exactly when neighbors_bv has a bit set.
C16_FrontierFlagExact ==
  \A k \in Ids(size) :
    cliques[k].is_active => (cliques[k].has_neighbors <=> cliques[k].neighbors_bv # {})

\* C16 witness: a sweep has left a clique that gave up the vertex it was made
\* from and keeps other members: a clique_from whose flag line 275 set without
\* looking at its frontier.
C16_Witness ==
  /\ op.name \in {"iteration", "reverse_sweep"}
  /\ \E k \in Ids(size) :
       /\ cliques[k].is_active
       /\ cliques[k].members_ct >= 1
       /\ cliques[k].id \notin cliques[k].members_bv
       /\ cliques[k].has_neighbors

\* C17: cur_annealing_iterations, the counter compared against
\* iterations_per_annealing, counts the iterations executed since the last forced
\* split or the start of the attempt: every iteration that does not begin with a
\* forced split leaves it one higher, whether or not cliques_ct decreased.
C17_CadenceCountsIterations ==
  [][ (pc = "loop" /\ op'.name = "iteration")
      => cur_annealing_iterations' = cur_annealing_iterations + 1 ]_vars

\* C18: a forced split replaces the threshold t = iterations_per_annealing by
\* t + (t \div 50), which is (102 * t) \div 100, the integer part of 1.02 * t, and
\* is never less than t; no other step of an attempt changes the threshold (a new
\* attempt starts again from the initial value).
C18_EscalationArithmetic ==
  /\ \A t \in 1..MaxThreshold :
       /\ escalated(t) = (102 * t) \div 100
       /\ escalated(t) >= t
  /\ [][ IF op'.name = "forced_split"
         THEN /\ iterations_per_annealing' = escalated(iterations_per_annealing)
              /\ iterations_per_annealing' = (102 * iterations_per_annealing) \div 100
              /\ iterations_per_annealing' >= iterations_per_annealing
         ELSE IF op'.name \in {"retry", "new_graph"}
         THEN iterations_per_annealing' = ScaledMillion
         ELSE iterations_per_annealing' = iterations_per_annealing ]_vars

\* C18 witness: a forced split has escalated the threshold of the attempt.
C18_Witness ==
  /\ op.name = "forced_split"
  /\ fault = "none"
  /\ cur_annealing_annealings = 0
  /\ iterations_per_annealing = escalated(ScaledMillion)

\* C19: after a forced split that activated a slot, the sweep that follows runs
\* on the reversed active prefix and on no shuffled one: the newly activated
\* clique, the last of the prefix, is at index 0 when vcc_greedy begins, is active
\* there (so the outer loop begins with it as `into`), and is still at index 0
\* when the sweep ends.
C19_SeededCliqueFirst ==
  [][ (pc = "reverse_sweep" /\ op.activated)
      => LET reversed == reverse_active_cliques(G)
             swept    == vcc_greedy(reversed)
         IN  /\ op.into = cliques_ct - 1
             /\ reversed.cliques[0] = cliques[op.into]
             /\ reversed.cliques[0].is_active
             /\ cliques' = swept.cliques
             /\ cliques_ct' = swept.cliques_ct
             /\ cliques'[0].id = cliques[op.into].id ]_vars

\* C19 witness: the reversed sweep has run after a forced split that activated a
\* slot and seeded it, and the seeded vertex is in the clique at index 0.
C19_Witness ==
  /\ op.name = "reverse_sweep"
  /\ op.activated
  /\ op.outcome = "moved"
  /\ op.vertex \in cliques[0].members_bv
  /\ cliques[0].members_ct >= 2

\* The members of clique c that are adjacent to every member of clique d.
AdjacentToAll(c, d) ==
  {v \in c.members_bv : \A m \in d.members_bv : v \in vertices[m].neighbors_bv}

\* C20: in every state of the driver a clique (of the working array or of the
\* vertex array) with has_neighbors = false has an empty neighbors_bv, so the
\* guard of line 217 suppresses no eligible transfer; and once
\* transfer_compatible_vertices has been called on an active pair (into, from),
\* no member left in `from` is adjacent to every member of `into`.
C20_GuardSound ==
  /\ \A k \in Ids(size) :
       /\ ~cliques[k].has_neighbors => cliques[k].neighbors_bv = {}
       /\ ~vertices[k].has_neighbors => vertices[k].neighbors_bv = {}
  /\ \A a, b \in Ids(size) :
       (a # b /\ cliques[a].is_active /\ cliques[b].is_active)
       => LET after == compatible_transfer_at(G, a, b).cliques
          IN  /\ ~cliques[a].has_neighbors
                   => cliques[a].neighbors_bv \cap cliques[b].members_bv = {}
              /\ AdjacentToAll(after[b], after[a]) = {}

\* C20 witness: a sweep has left a merged clique whose frontier ran empty, flagged
\* so, beside another active clique none of whose members it can take.
C20_Witness ==
  /\ op.name = "iteration"
  /\ \E a, b \in Ids(size) :
       /\ a # b
       /\ cliques[a].is_active /\ cliques[b].is_active
       /\ cliques[a].members_ct >= 2
       /\ ~cliques[a].has_neighbors
       /\ cliques[b].members_ct >= 1

====
